---- MODULE Spec2Model ----
(***************************************************************************)
(* Streak engine, saves and video generation of the future-diary backend *)
(* (src/src/diary.py, src/src/db.py, src/src/videogen.py).                *)
(*                                                                         *)
(* A diary entry carries its date as the string "YYYY-MM-DD" and an        *)
(* optional actualText.  The date string is modelled by the triple         *)
(* <<year, month, day>> of its zero-padded fields: comparing two such      *)
(* strings (the sort key of the code) is comparing the triples field by    *)
(* field, and parsing one (datetime.strptime(...).date()) gives a          *)
(* calendar date whose differences are taken on its proleptic Gregorian    *)
(* ordinal.  An Optional value is the empty set (None) or a singleton.     *)
(* A text is a sequence of characters.                                     *)
(***************************************************************************)
EXTENDS Integers, Sequences, FiniteSets, TLC

VARIABLES
    store,            \* collection "entries": the documents of the users
    users,            \* collection "users": userId -> user document
    today,            \* datetime.now().date() of the request
    current_user_id,  \* Depends(get_current_user): Optional user id
    failing,          \* the months "YYYY-MM" whose query on "entries" raises
    video_generations,\* collection "video_generations": userId -> document
    calls,            \* the other requests in flight: id -> its locals
    pc,               \* position of the request: "request" ("engine") or "done"
    entries,          \* check_streak's local: the entries it fetched
    response          \* what the request answered

vars == <<store, users, today, current_user_id, failing, video_generations,
          calls, pc, entries, response>>

----------------------------------------------------------------------------
(* Bounds of the model *)

\* number of calendar dates, from FirstDate on, that may hold an entry
NumDays == 13

\* "today" ranges over the last TodaySpan dates of the window and the day after
TodaySpan == 5

\* dates of the window of the blank-entry specification
BlankNumDays == 8

\* most blank entries in a store of the blank-entry specification
MaxBlank == 2

\* dates of the window of the specification of the engine on unordered lists
OrderNumDays == 7

\* dates of the window of the specification with faults
FaultNumDays == 8

\* dates of the window of the specification with saves and a running clock
BankNumDays == 7

\* days the clock may advance in that specification
BankClockDays == 1

\* dates of the window of the specification with unknown callers
AuthNumDays == 7

\* greatest version of a document
MaxVersion == 2

\* the first date of the window: ten days before a new year
FirstDate == <<2024, 12, 22>>

----------------------------------------------------------------------------
(* Program constants *)

\* the number of consecutive days that complete a streak
TargetDays == 7

----------------------------------------------------------------------------
(* Calendar: what strptime(..., "%Y-%m-%d").date() and date subtraction do *)

IsLeap(y) == (y % 4 = 0) /\ ((y % 100 # 0) \/ (y % 400 = 0))

DaysInMonth(y, m) ==
    IF m = 2 THEN (IF IsLeap(y) THEN 29 ELSE 28)
    ELSE IF m \in {4, 6, 9, 11} THEN 30 ELSE 31

\* the days of the year before the first day of month m
DaysBeforeMonth(y, m) ==
    <<0, 31, 59, 90, 120, 151, 181, 212, 243, 273, 304, 334>>[m]
        + (IF m > 2 /\ IsLeap(y) THEN 1 ELSE 0)

\* date.toordinal(): days since 0001-01-01, that day being 1
ToOrdinal(d) ==
    LET y == d[1] - 1
    IN  y * 365 + (y \div 4) - (y \div 100) + (y \div 400)
          + DaysBeforeMonth(d[1], d[2]) + d[3]

\* (a - b).days
DaysBetween(a, b) == ToOrdinal(a) - ToOrdinal(b)

\* datetime.strptime(d, "%Y-%m-%d") returns a date: the fields name a day of
\* the calendar (it raises ValueError otherwise)
ParsesAsDate(d) ==
    /\ d[2] \in 1..12
    /\ d[3] \in 1..DaysInMonth(d[1], d[2])

\* d + timedelta(days=1)
NextDay(d) ==
    IF d[3] < DaysInMonth(d[1], d[2]) THEN <<d[1], d[2], d[3] + 1>>
    ELSE IF d[2] < 12 THEN <<d[1], d[2] + 1, 1>>
    ELSE <<d[1] + 1, 1, 1>>

\* a < b on the strings "YYYY-MM-DD" (zero-padded fields compare like numbers)
DateStrLess(a, b) ==
    \/ a[1] < b[1]
    \/ a[1] = b[1] /\ a[2] < b[2]
    \/ a[1] = b[1] /\ a[2] = b[2] /\ a[3] < b[3]

----------------------------------------------------------------------------
(* Texts *)

Chars == {" ", "a"}

None == {}

Some(x) == {x}

TheValue(opt) == CHOOSE x \in opt : TRUE

\* str.strip(): drop the leading and trailing whitespace
RECURSIVE LStrip(_)
LStrip(s) ==
    IF s # <<>> /\ Head(s) = " " THEN LStrip(Tail(s)) ELSE s

RECURSIVE RStrip(_)
RStrip(s) ==
    IF s # <<>> /\ s[Len(s)] = " " THEN RStrip(SubSeq(s, 1, Len(s) - 1)) ELSE s

Strip(s) == RStrip(LStrip(s))

\* bool(s) of a str
Truthy(s) == s # <<>>

----------------------------------------------------------------------------
(* Lists of entries *)

Front(s) == SubSeq(s, 1, Len(s) - 1)

Last(s) == s[Len(s)]

\* mutant of IsValidEntry: the text is not stripped before it is tested
IsValidEntryNoStrip(e) ==
    /\ e.actualText # None
    /\ Truthy(TheValue(e.actualText))

\* e.actualText and e.actualText.strip()
IsValidEntry(e) ==
    /\ e.actualText # None
    /\ Truthy(TheValue(e.actualText))
    /\ Truthy(Strip(TheValue(e.actualText)))

\* [e for e in entries if e.actualText and e.actualText.strip()]
\* mutant of ValidEntries: the entries are not filtered
ValidEntriesUnfiltered(es) == es

ValidEntries(es) == SelectSeq(es, IsValidEntry)

\* sorted(es, key=lambda x: x.date): stable, ascending on the date string
RECURSIVE InsertAscending(_, _)
InsertAscending(s, e) ==
    IF s = <<>> THEN <<e>>
    ELSE IF DateStrLess(e.date, Last(s).date)
         THEN Append(InsertAscending(Front(s), e), Last(s))
         ELSE Append(s, e)

\* mutant of SortedByDate: the list is left in the order it came
SortedByDateUnsorted(es) == es

RECURSIVE SortedByDate(_)
SortedByDate(es) ==
    IF es = <<>> THEN <<>> ELSE InsertAscending(SortedByDate(Front(es)), Last(es))

\* sorted(es, key=lambda x: x.date, reverse=True): stable, descending
RECURSIVE InsertDescending(_, _)
InsertDescending(s, e) ==
    IF s = <<>> THEN <<e>>
    ELSE IF DateStrLess(Last(s).date, e.date)
         THEN Append(InsertDescending(Front(s), e), Last(s))
         ELSE Append(s, e)

RECURSIVE SortedByDateReverse(_)
SortedByDateReverse(es) ==
    IF es = <<>> THEN <<>>
    ELSE InsertDescending(SortedByDateReverse(Front(es)), Last(es))

----------------------------------------------------------------------------
(* _find_all_seven_day_streaks *)

\* mutant of ExtendRun: any later day extends the run, not only the next day
RECURSIVE ExtendRunLoose(_, _, _)
ExtendRunLoose(valid_entries, consecutive_days, next_idx) ==
    IF next_idx > Len(valid_entries) THEN consecutive_days
    ELSE IF Len(consecutive_days) >= TargetDays THEN consecutive_days
    ELSE IF DaysBetween(valid_entries[next_idx].date,
                        consecutive_days[Len(consecutive_days)].date) >= 1
         THEN ExtendRunLoose(valid_entries,
                             Append(consecutive_days, valid_entries[next_idx]),
                             next_idx + 1)
         ELSE consecutive_days

\* the inner loop: extend consecutive_days with the entries that follow, while
\* fewer than seven are collected and each is dated the day after the last
RECURSIVE ExtendRun(_, _, _)
ExtendRun(valid_entries, consecutive_days, next_idx) ==
    IF next_idx > Len(valid_entries) THEN consecutive_days
    ELSE IF Len(consecutive_days) >= TargetDays THEN consecutive_days
    ELSE IF DaysBetween(valid_entries[next_idx].date,
                        Last(consecutive_days).date) = 1
         THEN ExtendRun(valid_entries,
                        Append(consecutive_days, valid_entries[next_idx]),
                        next_idx + 1)
         ELSE consecutive_days

\* streak_info of the first seven entries of a run
StreakInfo(consecutive_days) ==
    LET streak_dates == [i \in 1..TargetDays |-> consecutive_days[i].date]
    IN  [start_date   |-> streak_dates[1],
         end_date     |-> streak_dates[TargetDays],
         dates        |-> streak_dates,
         completed_at |-> streak_dates[TargetDays]]

\* the duplicate check: a streak with the same start_date is already listed
IsDuplicate(streaks, streak_info) ==
    \E i \in 1..Len(streaks) : streaks[i].start_date = streak_info.start_date

\* mutant of ScanStarts: a found streak is put in front of the list
RECURSIVE ScanStartsPrepend(_, _, _)
ScanStartsPrepend(valid_entries, start_idx, streaks) ==
    IF start_idx > Len(valid_entries) - (TargetDays - 1) THEN streaks
    ELSE LET consecutive_days ==
                 ExtendRun(valid_entries, <<valid_entries[start_idx]>>,
                           start_idx + 1)
         IN  IF /\ Len(consecutive_days) >= TargetDays
                /\ ~IsDuplicate(streaks, StreakInfo(consecutive_days))
             THEN ScanStartsPrepend(valid_entries, start_idx + 1,
                                    <<StreakInfo(consecutive_days)>> \o streaks)
             ELSE ScanStartsPrepend(valid_entries, start_idx + 1, streaks)

\* the outer loop: for start_idx in range(len(valid_entries) - 6)
RECURSIVE ScanStarts(_, _, _)
ScanStarts(valid_entries, start_idx, streaks) ==
    IF start_idx > Len(valid_entries) - (TargetDays - 1) THEN streaks
    ELSE LET consecutive_days ==
                 ExtendRun(valid_entries, <<valid_entries[start_idx]>>,
                           start_idx + 1)
         IN  IF /\ Len(consecutive_days) >= TargetDays
                /\ ~IsDuplicate(streaks, StreakInfo(consecutive_days))
             THEN ScanStarts(valid_entries, start_idx + 1,
                             Append(streaks, StreakInfo(consecutive_days)))
             ELSE ScanStarts(valid_entries, start_idx + 1, streaks)

\* the inner loop raises ValueError: a date it parses is not a date
RECURSIVE ExtendRunRaises(_, _, _)
ExtendRunRaises(valid_entries, consecutive_days, next_idx) ==
    IF next_idx > Len(valid_entries) THEN FALSE
    ELSE IF Len(consecutive_days) >= TargetDays THEN FALSE
    ELSE IF \/ ~ParsesAsDate(Last(consecutive_days).date)
            \/ ~ParsesAsDate(valid_entries[next_idx].date)
         THEN TRUE
    ELSE IF DaysBetween(valid_entries[next_idx].date,
                        Last(consecutive_days).date) = 1
         THEN ExtendRunRaises(valid_entries,
                              Append(consecutive_days, valid_entries[next_idx]),
                              next_idx + 1)
         ELSE FALSE

\* the outer loop raises ValueError: the inner loop does, for some start_idx
RECURSIVE ScanStartsRaises(_, _)
ScanStartsRaises(valid_entries, start_idx) ==
    IF start_idx > Len(valid_entries) - (TargetDays - 1) THEN FALSE
    ELSE \/ ExtendRunRaises(valid_entries, <<valid_entries[start_idx]>>,
                            start_idx + 1)
         \/ ScanStartsRaises(valid_entries, start_idx + 1)

\* _find_all_seven_day_streaks raises ValueError
find_all_seven_day_streaks_raises(es) ==
    /\ es # <<>>
    /\ LET valid_entries == SortedByDate(ValidEntries(es))
       IN  /\ Len(valid_entries) >= TargetDays
           /\ ScanStartsRaises(valid_entries, 1)

\* the registration filter of the code is commented out: registration_date is
\* computed and not used
find_all_seven_day_streaks(es, user_registration_date) ==
    IF es = <<>> THEN <<>>
    ELSE LET valid_entries == SortedByDate(ValidEntries(es))
         IN  IF valid_entries = <<>> THEN <<>>
             ELSE IF Len(valid_entries) < TargetDays THEN <<>>
             ELSE ScanStarts(valid_entries, 1, <<>>)

----------------------------------------------------------------------------
(* _calculate_current_streak_with_resets *)

\* max(completed_streaks, key=lambda x: x["completed_at"]): the first greatest
RECURSIVE MaxByCompletedAt(_)
MaxByCompletedAt(streaks) ==
    IF Len(streaks) = 1 THEN streaks[1]
    ELSE LET m == MaxByCompletedAt(Front(streaks))
         IN  IF DateStrLess(m.completed_at, Last(streaks).completed_at)
             THEN Last(streaks) ELSE m

\* last_completed_date: Optional date
LastCompletedDate(completed_streaks) ==
    IF completed_streaks = <<>> THEN None
    ELSE Some(MaxByCompletedAt(completed_streaks).completed_at)

\* mutant of CurrentEntries: the completed streaks do not reset the count
CurrentEntriesNoReset(valid_entries, last_completed_date) == valid_entries

\* current_entries: the valid entries dated after last_completed_date
CurrentEntries(valid_entries, last_completed_date) ==
    LET After(e) == \/ last_completed_date = None
                    \/ DaysBetween(e.date, TheValue(last_completed_date)) > 0
    IN  SelectSeq(valid_entries, After)

\* mutant of CountBack: any earlier day is counted, not only the day before
RECURSIVE CountBackAnyGap(_, _, _, _)
CountBackAnyGap(current_entries, i, prev_date, current_streak) ==
    IF i > Len(current_entries) THEN current_streak
    ELSE IF DaysBetween(prev_date, current_entries[i].date) >= 1
         THEN CountBackAnyGap(current_entries, i + 1, current_entries[i].date,
                              current_streak + 1)
         ELSE current_streak

\* the loop over current_entries[1:]: count while each is the day before
RECURSIVE CountBack(_, _, _, _)
CountBack(current_entries, i, prev_date, current_streak) ==
    IF i > Len(current_entries) THEN current_streak
    ELSE IF DaysBetween(prev_date, current_entries[i].date) = 1
         THEN CountBack(current_entries, i + 1, current_entries[i].date,
                        current_streak + 1)
         ELSE current_streak

\* mutant of calculate_current_streak_with_resets_raises: an entry whose date
\* is not a date is passed over
calculate_current_streak_with_resets_skips(es) == FALSE

\* _calculate_current_streak_with_resets raises ValueError: the loop that
\* collects current_entries parses the date of every valid entry
calculate_current_streak_with_resets_raises(es) ==
    /\ es # <<>>
    /\ \E i \in 1..Len(es) :
           IsValidEntry(es[i]) /\ ~ParsesAsDate(es[i].date)

\* mutant of calculate_current_streak_with_resets: an entry of two days ago
\* still counts as active
calculate_current_streak_stale_two(es, completed_streaks, now) ==
    IF es = <<>> THEN 0
    ELSE LET valid_entries == SortedByDateReverse(ValidEntries(es))
             current_entries ==
                 CurrentEntries(valid_entries, LastCompletedDate(completed_streaks))
         IN  IF valid_entries = <<>> THEN 0
             ELSE IF current_entries = <<>> THEN 0
             ELSE IF DaysBetween(now, current_entries[1].date) > 2 THEN 0
             ELSE CountBack(current_entries, 2, current_entries[1].date, 1)

calculate_current_streak_with_resets(es, completed_streaks, now) ==
    IF es = <<>> THEN 0
    ELSE LET valid_entries == SortedByDateReverse(ValidEntries(es))
             current_entries ==
                 CurrentEntries(valid_entries, LastCompletedDate(completed_streaks))
         IN  IF valid_entries = <<>> THEN 0
             ELSE IF current_entries = <<>> THEN 0
             ELSE IF DaysBetween(now, current_entries[1].date) > 1 THEN 0
             ELSE CountBack(current_entries, 2, current_entries[1].date, 1)

----------------------------------------------------------------------------
(* _calculate_current_streak *)

\* the loop over enumerate(valid_entries): count while the i-th entry (from 0)
\* is dated i days before start_date
RECURSIVE CountExpected(_, _, _, _)
CountExpected(valid_entries, i, start_date, current_streak) ==
    IF i > Len(valid_entries) THEN current_streak
    ELSE IF ToOrdinal(valid_entries[i].date) = ToOrdinal(start_date) - (i - 1)
         THEN CountExpected(valid_entries, i + 1, start_date, current_streak + 1)
         ELSE current_streak

calculate_current_streak(es, now) ==
    IF es = <<>> THEN 0
    ELSE LET valid_entries == SortedByDateReverse(ValidEntries(es))
         IN  IF valid_entries = <<>> THEN 0
             ELSE LET latest_entry_date == valid_entries[1].date
                  IN  IF DaysBetween(latest_entry_date, now) = 0
                      THEN CountExpected(valid_entries, 1, now, 0)
                      ELSE IF DaysBetween(now, latest_entry_date) = 1
                      THEN CountExpected(valid_entries, 1, latest_entry_date, 0)
                      ELSE 0

----------------------------------------------------------------------------
(* The collections and the queries on them *)

\* the document id f"{userId}_{date}" of an entry
DocId(user_id, date) == <<user_id, date>>

\* get_user: Optional user document
get_user(user_id) ==
    IF user_id \in DOMAIN users THEN Some(users[user_id]) ELSE None

\* a set of entries with different dates, listed by ascending date
RECURSIVE OrderedByDate(_)
OrderedByDate(S) ==
    IF S = {} THEN <<>>
    ELSE LET first == CHOOSE x \in S : \A y \in S : ~DateStrLess(y.date, x.date)
         IN  <<first>> \o OrderedByDate(S \ {first})

\* get_diary_entries_by_month(user_id, "YYYY-MM"): the entries of the user
\* whose date string is at least "YYYY-MM-01" and less than the first day of
\* the next month, ordered by date
get_diary_entries_by_month(user_id, year_month) ==
    LET year  == year_month[1]
        month == year_month[2]
        start_date == <<year, month, 1>>
        end_date == IF month = 12 THEN <<year + 1, 1, 1>>
                    ELSE <<year, month + 1, 1>>
    IN  OrderedByDate({store[k] : k \in {j \in DOMAIN store :
            /\ store[j].userId = user_id
            /\ ~DateStrLess(store[j].date, start_date)
            /\ DateStrLess(store[j].date, end_date)}})

\* the query of a month raises
get_diary_entries_by_month_raises(year_month) == year_month \in failing

\* the months of a year from month on, fetched one after the other and
\* concatenated
RECURSIVE MonthsFrom(_, _, _)
MonthsFrom(user_id, year, month) ==
    IF month > 12 THEN <<>>
    ELSE get_diary_entries_by_month(user_id, <<year, month>>)
           \o MonthsFrom(user_id, year, month + 1)

\* get_diary_entries_by_year: all the entries of the user for the calendar
\* year
get_diary_entries_by_year(user_id, year) == MonthsFrom(user_id, year, 1)

\* mutant of get_diary_entries_by_year_raises: a month that fails is passed
\* over
get_diary_entries_by_year_swallows(year) == FALSE

\* get_diary_entries_by_year raises: the query of one of its months does
get_diary_entries_by_year_raises(year) ==
    \E month \in 1..12 : get_diary_entries_by_month_raises(<<year, month>>)

----------------------------------------------------------------------------
(* save_entry *)

\* a field of the request: not set (None) or set to a value (Some); what the
\* document gets for it, old being what it has without the request
FieldOr(field, old) == IF field = None THEN old ELSE TheValue(field)

\* mutant of UpdatedDoc: a field the request does not set is written as None
UpdatedDocAllFields(current, existing, entry) ==
    [current EXCEPT !.planText   = FieldOr(entry.planText, None),
                    !.actualText = FieldOr(entry.actualText, None),
                    !.version    = existing.version + 1]

\* doc_ref.update(updated_data) on the document as it is now: the fields the
\* request sets (model_dump(exclude_unset=True)) and the version, one more
\* than the version read before
UpdatedDoc(current, existing, entry) ==
    [current EXCEPT !.planText   = FieldOr(entry.planText, @),
                    !.actualText = FieldOr(entry.actualText, @),
                    !.version    = existing.version + 1]

\* the DiaryEntry of a new document
NewDoc(user_id, entry) ==
    [userId     |-> user_id,
     date       |-> entry.date,
     planText   |-> FieldOr(entry.planText, None),
     actualText |-> FieldOr(entry.actualText, None),
     version    |-> 1]

\* existing_doc = doc_ref.get(): Optional document
get_existing(doc_id) ==
    IF doc_id \in DOMAIN store THEN Some(store[doc_id]) ELSE None

\* the collection after the write of save_diary_entry that read existing
WriteEntry(doc_id, existing, user_id, entry) ==
    IF existing # None
    THEN [store EXCEPT ![doc_id] = UpdatedDoc(@, TheValue(existing), entry)]
    ELSE (doc_id :> NewDoc(user_id, entry)) @@ store

\* entry.userId = current_user_id or "anonymous"
SavingUserId ==
    IF current_user_id = None THEN "anonymous" ELSE TheValue(current_user_id)

\* POST /diary/entries/{date} with an entry whose planText and actualText are
\* set (Some) or not set (None), and save_diary_entry, no other save between
\* its read and its write; of a document, the fields the model follows
SaveEntry(date, planText, actualText) ==
    LET entry == [date |-> date, planText |-> planText, actualText |-> actualText]
        doc_id == DocId(SavingUserId, date)
    IN  /\ IF ~ParsesAsDate(date)
           THEN UNCHANGED store
           ELSE store' = WriteEntry(doc_id, get_existing(doc_id), SavingUserId, entry)
        /\ UNCHANGED <<users, today, current_user_id, failing, video_generations,
                       calls, pc, entries, response>>

----------------------------------------------------------------------------
(* check_streak *)

Max(a, b) == IF a >= b THEN a ELSE b

\* mutant of NeededForSeven: one day too few
NeededForSevenOffByOne(current_streak) == Max(0, TargetDays - 1 - current_streak)

\* "needed_for_seven": max(0, 7 - current_streak)
NeededForSeven(current_streak) == Max(0, TargetDays - current_streak)

\* mutant of LatestCompletedStreak: the first streak of the list
LatestCompletedStreakFirst(completed_streaks) ==
    IF completed_streaks = <<>> THEN None ELSE Some(completed_streaks[1])

\* "latest_completed_streak": completed_streaks[-1] if completed_streaks else None
LatestCompletedStreak(completed_streaks) ==
    IF completed_streaks = <<>> THEN None ELSE Some(Last(completed_streaks))

\* the dates of a list of entries
DatesOf(es) == [i \in 1..Len(es) |-> es[i].date]

\* the body of the answer of check_streak
StreakResponse(es, user, now) ==
    LET completed_streaks == find_all_seven_day_streaks(es, user.createdAt)
        current_streak ==
            calculate_current_streak_with_resets(es, completed_streaks, now)
        valid_entries == ValidEntries(es)
    IN  [has_seven_day_streak    |-> Len(completed_streaks) > 0,
         completed_streaks_count |-> Len(completed_streaks),
         completed_streaks       |-> completed_streaks,
         latest_completed_streak |-> LatestCompletedStreak(completed_streaks),
         current_streak          |-> current_streak,
         total_entries           |-> Len(valid_entries),
         needed_for_seven        |-> NeededForSeven(current_streak),
         registration_date       |-> user.createdAt,
         debug |-> [total_entries     |-> Len(es),
                    valid_entries     |-> Len(valid_entries),
                    valid_entry_dates |-> DatesOf(SortedByDate(valid_entries)),
                    registration_date |-> user.createdAt]]

\* the HTTPException the handler's "except Exception" raises for any exception
\* of its body, the HTTPExceptions of the body included
Failed(detail) == [status |-> 500, detail |-> detail]

NoResponse == [status |-> 0]

\* the engine calls of check_streak and what the handler answers after them
EngineAnswer(es, user, now) ==
    IF \/ find_all_seven_day_streaks_raises(es)
       \/ calculate_current_streak_with_resets_raises(es)
    THEN Failed("ValueError")
    ELSE [status |-> 200, body |-> StreakResponse(es, user, now)]

\* GET /diary/streak-check
CheckStreak ==
    /\ pc = "request"
    /\ pc' = "done"
    /\ IF current_user_id = None
       THEN /\ response' = Failed("401: Authentication required")
            /\ entries' = <<>>
       ELSE IF get_user(TheValue(current_user_id)) = None
       THEN /\ response' = Failed("404: User not found")
            /\ entries' = <<>>
       ELSE IF get_diary_entries_by_year_raises(today[1])
       THEN /\ response' = Failed("Exception")
            /\ entries' = <<>>
       ELSE LET user == TheValue(get_user(TheValue(current_user_id)))
                current_year == today[1]
            IN  /\ entries' = get_diary_entries_by_year(TheValue(current_user_id),
                                                        current_year)
                /\ response' = EngineAnswer(entries', user, today)
    /\ UNCHANGED <<store, users, today, current_user_id, failing,
                   video_generations, calls>>

----------------------------------------------------------------------------
(* The requests checked: any store of one user over the window of dates *)

RECURSIVE DateAt(_)
DateAt(i) == IF i = 1 THEN FirstDate ELSE NextDay(DateAt(i - 1))

Window(n) == {DateAt(i) : i \in 1..n}

TodayDates == {DateAt(i) : i \in (NumDays - TodaySpan + 1)..(NumDays + 1)}

RegistrationDates == {DateAt(1), DateAt(NumDays)}

UserId == "u1"

ValidText == <<"a">>

BlankTexts == {None, Some(<<>>), Some(<<" ">>)}

\* the store holding, for user_id, an entry on each date of the domain of texts
StoreOf(user_id, texts) ==
    [k \in {DocId(user_id, d) : d \in DOMAIN texts} |->
        [userId |-> user_id, date |-> k[2], planText |-> None,
         actualText |-> texts[k[2]], version |-> 1]]

UsersOf(user_id, created_at) ==
    [u \in {user_id} |-> [userId |-> user_id, createdAt |-> created_at]]

Init ==
    /\ \E V \in SUBSET Window(NumDays) :
           store = StoreOf(UserId, [d \in V |-> Some(ValidText)])
    /\ \E r \in RegistrationDates : users = UsersOf(UserId, r)
    /\ today \in TodayDates
    /\ current_user_id = Some(UserId)
    /\ failing = {}
    /\ video_generations = <<>>
    /\ calls = <<>>
    /\ pc = "request"
    /\ entries = <<>>
    /\ response = NoResponse

Next == CheckStreak

Spec == Init /\ [][Next]_vars

\* stores that also hold at most MaxBlank entries without a usable actualText,
\* all of them blank in the same way
BlankTodayDates == {DateAt(i) : i \in (BlankNumDays - 1)..(BlankNumDays + 1)}

InitBlank ==
    /\ \E V \in SUBSET Window(BlankNumDays) :
         \E B \in SUBSET (Window(BlankNumDays) \ V) :
           /\ Cardinality(B) <= MaxBlank
           /\ \E blank \in BlankTexts :
                store = StoreOf(UserId,
                                [d \in V \cup B |->
                                    IF d \in V THEN Some(ValidText) ELSE blank])
    /\ users = UsersOf(UserId, DateAt(1))
    /\ today \in BlankTodayDates
    /\ current_user_id = Some(UserId)
    /\ failing = {}
    /\ video_generations = <<>>
    /\ calls = <<>>
    /\ pc = "request"
    /\ entries = <<>>
    /\ response = NoResponse

SpecBlank == InitBlank /\ [][Next]_vars

\* all the lists that hold each element of the list es once
Orderings(es) ==
    {[i \in 1..Len(es) |-> es[p[i]]] : p \in Permutations(1..Len(es))}

\* the engine part of check_streak (the two calls and the answer built from
\* them), applied to the entries as the store may list them: in any order
ApplyEngine ==
    /\ pc = "engine"
    /\ pc' = "done"
    /\ \E listed \in Orderings(entries) :
           /\ entries' = listed
           /\ response' = EngineAnswer(listed, users[UserId], today)
    /\ UNCHANGED <<store, users, today, current_user_id, failing,
                   video_generations, calls>>

\* the engine about to be handed the entries of a store
InitOrder ==
    /\ \E V \in SUBSET Window(OrderNumDays) :
           store = StoreOf(UserId, [d \in V |-> Some(ValidText)])
    /\ entries = OrderedByDate({store[k] : k \in DOMAIN store})
    /\ users = UsersOf(UserId, DateAt(1))
    /\ today = DateAt(OrderNumDays)
    /\ current_user_id = Some(UserId)
    /\ failing = {}
    /\ video_generations = <<>>
    /\ calls = <<>>
    /\ pc = "engine"
    /\ response = NoResponse

NextOrder == ApplyEngine

SpecOrder == InitOrder /\ [][NextOrder]_vars

\* the first date of the window with faults: five days before a new month
FaultFirstDate == <<2024, 11, 26>>

RECURSIVE DateFrom(_, _)
DateFrom(first, i) == IF i = 1 THEN first ELSE NextDay(DateFrom(first, i - 1))

FaultWindow == {DateFrom(FaultFirstDate, i) : i \in 1..FaultNumDays}

FaultTodayDates ==
    {DateFrom(FaultFirstDate, FaultNumDays), DateFrom(FaultFirstDate, FaultNumDays + 1)}

\* date strings that are not dates: "2024-11-00" sorts before the window,
\* "2024-11-31" inside it and "2024-12-32" after it
MalformedDates == {<<2024, 11, 0>>, <<2024, 11, 31>>, <<2024, 12, 32>>}

FaultMonths == {<<2024, 11>>, <<2024, 12>>}

\* stores that may hold one valid entry whose date is not a date, and queries
\* on the entries of a month that may raise
InitFaults ==
    /\ \E V \in SUBSET FaultWindow :
         \E M \in SUBSET MalformedDates :
           /\ Cardinality(M) <= 1
           /\ store = StoreOf(UserId, [d \in V \cup M |-> Some(ValidText)])
    /\ users = UsersOf(UserId, FaultFirstDate)
    /\ today \in FaultTodayDates
    /\ current_user_id = Some(UserId)
    /\ failing \in SUBSET FaultMonths
    /\ video_generations = <<>>
    /\ calls = <<>>
    /\ pc = "request"
    /\ entries = <<>>
    /\ response = NoResponse

SpecFaults == InitFaults /\ [][Next]_vars

\* the first date of the window with saves: seven days before a new year
BankFirstDate == <<2024, 12, 25>>

BankWindow == {DateFrom(BankFirstDate, i) : i \in 1..BankNumDays}

\* the clock starts on the last day of the window
BankFirstToday == DateFrom(BankFirstDate, BankNumDays)

\* an empty collection of entries, a registered user, no request answered yet
InitBank ==
    /\ store = <<>>
    /\ users = UsersOf(UserId, BankFirstDate)
    /\ today = BankFirstToday
    /\ current_user_id = Some(UserId)
    /\ failing = {}
    /\ video_generations = <<>>
    /\ calls = <<>>
    /\ pc = "request"
    /\ entries = <<>>
    /\ response = NoResponse

\* a save that adds a valid entry, actualText set to a valid text on a date
\* of the window (or on a date that is not one), or keeps one: planText
\* alone set, on the first date of the window
SaveValidEntry ==
    \/ \E date \in BankWindow \cup {<<2024, 12, 32>>} :
           /\ DocId(SavingUserId, date) \notin DOMAIN store
           /\ SaveEntry(date, None, Some(Some(ValidText)))
    \/ /\ DocId(SavingUserId, BankFirstDate) \in DOMAIN store
          => store[DocId(SavingUserId, BankFirstDate)].version < MaxVersion
       /\ SaveEntry(BankFirstDate, Some(Some(ValidText)), None)

\* the clock passes midnight
AdvanceClock ==
    /\ DaysBetween(today, BankFirstToday) < BankClockDays
    /\ today' = NextDay(today)
    /\ UNCHANGED <<store, users, current_user_id, failing, video_generations,
                   calls, pc, entries, response>>

\* the next GET /diary/streak-check arrives
NewRequest ==
    /\ pc = "done"
    /\ pc' = "request"
    /\ UNCHANGED <<store, users, today, current_user_id, failing,
                   video_generations, calls, entries, response>>

NextBank == CheckStreak \/ SaveValidEntry \/ AdvanceClock \/ NewRequest

SpecBank == InitBank /\ [][NextBank]_vars

\* a user id without a document in "users"
UnknownUserId == "u2"

\* requests of a registered user, of a user without a user document and
\* without a current user
InitAuth ==
    /\ \E V \in SUBSET Window(AuthNumDays) :
           store = StoreOf(UserId, [d \in V |-> Some(ValidText)])
    /\ users = UsersOf(UserId, DateAt(1))
    /\ today = DateAt(AuthNumDays)
    /\ current_user_id \in {None, Some(UserId), Some(UnknownUserId)}
    /\ failing = {}
    /\ video_generations = <<>>
    /\ calls = <<>>
    /\ pc = "request"
    /\ entries = <<>>
    /\ response = NoResponse

SpecAuth == InitAuth /\ [][Next]_vars

----------------------------------------------------------------------------
(* Saves in flight: the server runs as several instances (Cloud Run,      *)
(* storage.py:7), each save a request of its own, and save_diary_entry    *)
(* reads the document and writes it in two Firestore operations with no   *)
(* transaction; the operations of different requests interleave.          *)

\* number of save requests
MaxSaves == 2

SaveIds == 1 .. MaxSaves

SaveDates == {BankFirstDate, NextDay(BankFirstDate), <<2024, 12, 32>>}

\* a field of the request: not set, or set to one of two texts
PlanTexts == {None, Some(Some(<<"a">>))}
ActualTexts == {None, Some(Some(ValidText)), Some(Some(<<"a", "a">>))}

SaveNotStarted == [pc |-> "start", entry |-> None, existing |-> None, status |-> 0]

\* save_entry up to the call of save_diary_entry: the date of the path is
\* parsed (400 when it is not a date) and written into the entry
SaveStart(r) ==
    /\ r \in DOMAIN calls
    /\ calls[r].pc = "start"
    /\ \E date \in SaveDates, planText \in PlanTexts, actualText \in ActualTexts :
          LET entry == [date |-> date, planText |-> planText,
                        actualText |-> actualText]
          IN  calls' = [calls EXCEPT ![r] =
                  IF ParsesAsDate(date)
                  THEN [@ EXCEPT !.pc = "read", !.entry = Some(entry)]
                  ELSE [@ EXCEPT !.pc = "done", !.entry = Some(entry), !.status = 400]]
    /\ UNCHANGED <<store, users, today, current_user_id, failing,
                   video_generations, pc, entries, response>>

\* existing_doc = doc_ref.get()
SaveRead(r) ==
    /\ r \in DOMAIN calls
    /\ calls[r].pc = "read"
    /\ calls' = [calls EXCEPT ![r] =
           [@ EXCEPT !.pc = "write",
                     !.existing = get_existing(DocId(SavingUserId,
                                                      TheValue(calls[r].entry).date))]]
    /\ UNCHANGED <<store, users, today, current_user_id, failing,
                   video_generations, pc, entries, response>>

\* doc_ref.update(updated_data) or doc_ref.set(...), and the answer
SaveWrite(r) ==
    /\ r \in DOMAIN calls
    /\ calls[r].pc = "write"
    /\ LET entry == TheValue(calls[r].entry)
       IN  store' = WriteEntry(DocId(SavingUserId, entry.date), calls[r].existing,
                               SavingUserId, entry)
    /\ calls' = [calls EXCEPT ![r] = [@ EXCEPT !.pc = "done", !.status = 200]]
    /\ UNCHANGED <<users, today, current_user_id, failing, video_generations,
                   pc, entries, response>>

InitSave ==
    /\ store = <<>>
    /\ users = UsersOf(UserId, FirstDate)
    /\ today = BankFirstToday
    /\ current_user_id = Some(UserId)
    /\ failing = {}
    /\ video_generations = <<>>
    /\ calls = [r \in SaveIds |-> SaveNotStarted]
    /\ pc = "start"
    /\ entries = <<>>
    /\ response = NoResponse

NextSave ==
    \E r \in SaveIds : SaveStart(r) \/ SaveRead(r) \/ SaveWrite(r)

SpecSave == InitSave /\ [][NextSave]_vars

----------------------------------------------------------------------------
(* check_streak requests in flight: the handler reads the user, reads the *)
(* entries of the year and computes its answer; the reads of different    *)
(* requests interleave.                                                   *)

\* number of check_streak requests
MaxChecks == 2

\* number of dates of the window of these requests
ChecksNumDays == 8

CheckIds == 1 .. MaxChecks

CheckNotStarted ==
    [pc |-> "start", user |-> None, entries |-> <<>>, response |-> NoResponse]

\* mutant of CheckGetUser: the read of the user also removes the document
CheckGetUserConsuming(r) ==
    /\ r \in DOMAIN calls
    /\ calls[r].pc = "start"
    /\ calls' = [calls EXCEPT ![r] =
           [@ EXCEPT !.pc = "fetch", !.user = get_user(TheValue(current_user_id))]]
    /\ users' = <<>>
    /\ UNCHANGED <<store, today, current_user_id, failing, video_generations,
                   pc, entries, response>>

\* check_streak up to the user: 401 without a user id, 404 without a user
\* document, both answered as 500 by the handler's except
CheckGetUser(r) ==
    /\ r \in DOMAIN calls
    /\ calls[r].pc = "start"
    /\ calls' = [calls EXCEPT ![r] =
           IF current_user_id = None
           THEN [@ EXCEPT !.pc = "done",
                          !.response = Failed("401: Authentication required")]
           ELSE IF get_user(TheValue(current_user_id)) = None
           THEN [@ EXCEPT !.pc = "done",
                          !.response = Failed("404: User not found")]
           ELSE [@ EXCEPT !.pc = "fetch",
                          !.user = get_user(TheValue(current_user_id))]]
    /\ UNCHANGED <<store, users, today, current_user_id, failing,
                   video_generations, pc, entries, response>>

\* mutant of CheckFetch: the entries read are removed from the collection
CheckFetchConsuming(r) ==
    /\ r \in DOMAIN calls
    /\ calls[r].pc = "fetch"
    /\ calls' = [calls EXCEPT ![r] =
           [@ EXCEPT !.pc = "compute",
                     !.entries = get_diary_entries_by_year(
                                     TheValue(current_user_id), today[1])]]
    /\ store' = <<>>
    /\ UNCHANGED <<users, today, current_user_id, failing, video_generations,
                   pc, entries, response>>

\* all_entries = await get_diary_entries_by_year(current_user_id, current_year)
CheckFetch(r) ==
    /\ r \in DOMAIN calls
    /\ calls[r].pc = "fetch"
    /\ calls' = [calls EXCEPT ![r] =
           IF get_diary_entries_by_year_raises(today[1])
           THEN [@ EXCEPT !.pc = "done", !.response = Failed("Exception")]
           ELSE [@ EXCEPT !.pc = "compute",
                          !.entries = get_diary_entries_by_year(
                                          TheValue(current_user_id), today[1])]]
    /\ UNCHANGED <<store, users, today, current_user_id, failing,
                   video_generations, pc, entries, response>>

\* the two computations on the entries read, and the answer
CheckAnswer(r) ==
    /\ r \in DOMAIN calls
    /\ calls[r].pc = "compute"
    /\ calls' = [calls EXCEPT ![r] =
           [@ EXCEPT !.pc = "done",
                     !.response = EngineAnswer(calls[r].entries,
                                               TheValue(calls[r].user), today)]]
    /\ UNCHANGED <<store, users, today, current_user_id, failing,
                   video_generations, pc, entries, response>>

InitChecks ==
    /\ \E V \in SUBSET Window(ChecksNumDays) :
           store = StoreOf(UserId, [d \in V |-> Some(ValidText)])
    /\ users = UsersOf(UserId, DateAt(1))
    /\ today \in {DateAt(ChecksNumDays), DateAt(ChecksNumDays + 1)}
    /\ current_user_id = Some(UserId)
    /\ failing = {}
    /\ video_generations = <<>>
    /\ calls = [r \in CheckIds |-> CheckNotStarted]
    /\ pc = "start"
    /\ entries = <<>>
    /\ response = NoResponse

NextChecks ==
    \E r \in CheckIds : CheckGetUser(r) \/ CheckFetch(r) \/ CheckAnswer(r)

SpecChecks == InitChecks /\ [][NextChecks]_vars

----------------------------------------------------------------------------
(* Video generation (src/src/videogen.py): collection "video_generations" *)
(* holds one document per user; a request reads it, marks its generation  *)
(* as started, calls the video API, uploads the video and marks the       *)
(* generation as completed, or deletes the document when the API call or  *)
(* the upload fails.  Each of these is an operation of its own, and the   *)
(* operations of different requests interleave.  The Firestore operations *)
(* on the collection succeed; the API call and the upload may fail.       *)

\* number of video requests
MaxVideos == 3

\* number of dates of the entries of these requests
VideoNumDays == 7

\* number of them that may be generate-special requests
MaxSpecials == 1

VideoIds == 1 .. MaxVideos

\* what the request r may be
VideoKinds(r) == IF r <= MaxSpecials THEN {"intro", "special"} ELSE {"intro"}

VideoNotStarted ==
    [kind |-> "none", pc |-> "start", status |-> 0, api_called |-> FALSE]

\* the answer of a request and its end
Ended(call, status) == [call EXCEPT !.pc = "done", !.status = status]

\* _check_video_generation_status: Optional document
check_video_generation_status(user_id) ==
    IF user_id \in DOMAIN video_generations
    THEN Some(video_generations[user_id])
    ELSE None

\* check_streak called by generate_special_video: the response of the
\* handler, its HTTPException(500) included
check_streak(user_id) ==
    IF get_user(user_id) = None
    THEN Failed("404: User not found")
    ELSE IF get_diary_entries_by_year_raises(today[1])
    THEN Failed("Exception")
    ELSE EngineAnswer(get_diary_entries_by_year(user_id, today[1]),
                      TheValue(get_user(user_id)), today)

VideoUnchanged == <<store, users, today, current_user_id, failing, pc, entries,
                    response>>

\* a request arrives, generate-intro or generate-special; get_user, 404
\* when the user has no document
VideoGetUser(r) ==
    /\ r \in DOMAIN calls
    /\ calls[r].pc = "start"
    /\ \E kind \in VideoKinds(r) :
          calls' = [calls EXCEPT ![r] =
              IF get_user(TheValue(current_user_id)) = None
              THEN Ended([@ EXCEPT !.kind = kind], 404)
              ELSE [@ EXCEPT !.kind = kind,
                             !.pc = IF kind = "intro" THEN "check" ELSE "streak"]]
    /\ UNCHANGED <<video_generations, VideoUnchanged>>

\* generate_special_video: check_streak inside a try whose except Exception
\* answers 500, also for the HTTPException(400) raised inside the try when
\* the result has no seven-day streak
VideoStreak(r) ==
    /\ r \in DOMAIN calls
    /\ calls[r].pc = "streak"
    /\ \E streak_result \in {check_streak(TheValue(current_user_id))} :
          calls' = [calls EXCEPT ![r] =
              IF streak_result.status # 200
              THEN Ended(@, 500)
              ELSE IF ~streak_result.body.has_seven_day_streak
              THEN Ended(@, 500)
              ELSE [@ EXCEPT !.pc = "check"]]
    /\ UNCHANGED <<video_generations, VideoUnchanged>>

\* the status read before a generation: generate_intro_video answers the
\* existing video when the status is "completed" and 409 when it is
\* "generating"; generate_special_video answers the existing video when the
\* status is "special"
VideoCheck(r) ==
    /\ r \in DOMAIN calls
    /\ calls[r].pc = "check"
    /\ LET existing_generation ==
               check_video_generation_status(TheValue(current_user_id))
           status == IF existing_generation = None THEN "none"
                     ELSE TheValue(existing_generation).status
       IN  calls' = [calls EXCEPT ![r] =
               IF calls[r].kind = "intro"
               THEN IF status = "completed" THEN Ended(@, 200)
                    ELSE IF status = "generating" THEN Ended(@, 409)
                    ELSE [@ EXCEPT !.pc = "mark"]
               ELSE IF status = "special" THEN Ended(@, 200)
                    ELSE [@ EXCEPT !.pc = "mark"]]
    /\ UNCHANGED <<video_generations, VideoUnchanged>>

\* _mark_video_generation_started / _mark_special_video_generation_started:
\* doc_ref.set(...), whatever the document was
VideoMark(r) ==
    /\ r \in DOMAIN calls
    /\ calls[r].pc = "mark"
    /\ video_generations' =
           (TheValue(current_user_id) :>
               [generation_id |-> r,
                status |-> IF calls[r].kind = "intro" THEN "generating"
                           ELSE "generating_special",
                video_url |-> None])
           @@ video_generations
    /\ calls' = [calls EXCEPT ![r] = [@ EXCEPT !.pc = "api"]]
    /\ UNCHANGED VideoUnchanged

\* _call_veo_api: returns the video or raises
VideoApi(r) ==
    /\ r \in DOMAIN calls
    /\ calls[r].pc = "api"
    /\ \E ok \in BOOLEAN :
          calls' = [calls EXCEPT ![r] =
              [@ EXCEPT !.api_called = TRUE,
                        !.pc = IF ok THEN "upload" ELSE "clear"]]
    /\ UNCHANGED <<video_generations, VideoUnchanged>>

\* _upload_video_to_gcs: returns the url or raises
VideoUpload(r) ==
    /\ r \in DOMAIN calls
    /\ calls[r].pc = "upload"
    /\ \E ok \in BOOLEAN :
          calls' = [calls EXCEPT ![r] =
              [@ EXCEPT !.pc = IF ok THEN "complete" ELSE "clear"]]
    /\ UNCHANGED <<video_generations, VideoUnchanged>>

\* _mark_video_generation_completed / _mark_special_video_generation_completed:
\* doc_ref.update(...), which changes an existing document only (on a missing
\* one it raises, and the exception is swallowed), and the answer
VideoComplete(r) ==
    /\ r \in DOMAIN calls
    /\ calls[r].pc = "complete"
    /\ LET user_id == TheValue(current_user_id)
       IN  video_generations' =
               IF user_id \in DOMAIN video_generations
               THEN [video_generations EXCEPT ![user_id] =
                        [@ EXCEPT !.status = IF calls[r].kind = "intro"
                                             THEN "completed" ELSE "special",
                                  !.video_url = Some(r)]]
               ELSE video_generations
    /\ calls' = [calls EXCEPT ![r] = Ended(@, 200)]
    /\ UNCHANGED VideoUnchanged

\* mutant of VideoClear: the failed request ends and leaves the document
VideoClearKeeping(r) ==
    /\ r \in DOMAIN calls
    /\ calls[r].pc = "clear"
    /\ calls' = [calls EXCEPT ![r] = Ended(@, 500)]
    /\ UNCHANGED <<video_generations, VideoUnchanged>>

\* the except of the generation: doc_ref.delete(), the error raised again
\* and answered as 500
VideoClear(r) ==
    /\ r \in DOMAIN calls
    /\ calls[r].pc = "clear"
    /\ video_generations' =
           [u \in DOMAIN video_generations \ {TheValue(current_user_id)} |->
               video_generations[u]]
    /\ calls' = [calls EXCEPT ![r] = Ended(@, 500)]
    /\ UNCHANGED VideoUnchanged

InitVideo ==
    /\ \E V \in {Window(TargetDays - 1), Window(VideoNumDays)} :
           store = StoreOf(UserId, [d \in V |-> Some(ValidText)])
    /\ users = UsersOf(UserId, DateAt(1))
    /\ today = DateAt(VideoNumDays)
    /\ current_user_id \in {Some(UserId), Some(UnknownUserId)}
    /\ failing = {}
    /\ video_generations = <<>>
    /\ calls = [r \in VideoIds |-> VideoNotStarted]
    /\ pc = "start"
    /\ entries = <<>>
    /\ response = NoResponse

NextVideo ==
    \E r \in VideoIds :
        \/ VideoGetUser(r)
        \/ VideoStreak(r)
        \/ VideoCheck(r)
        \/ VideoMark(r)
        \/ VideoApi(r)
        \/ VideoUpload(r)
        \/ VideoComplete(r)
        \/ VideoClear(r)

SpecVideo == InitVideo /\ [][NextVideo]_vars

----------------------------------------------------------------------------
(* Vocabulary of the properties *)

Range(f) == {f[i] : i \in DOMAIN f}

\* the request was answered with a streak result
Answered == pc = "done" /\ response.status = 200

\* the dates of the valid entries handed to the two engine functions
ValidDates == {entries[i].date : i \in {j \in 1..Len(entries) : IsValidEntry(entries[j])}}

\* the dates of the valid entries the store holds for the user
UserValidDates ==
    {store[k].date : k \in {j \in DOMAIN store :
                               j[1] = UserId /\ IsValidEntry(store[j])}}

Ordinals(S) == {ToOrdinal(d) : d \in S}

MaxOf(N) == CHOOSE n \in N : \A m \in N : m <= n

MinOf(N) == CHOOSE n \in N : \A m \in N : n <= m

\* the latest date of a non-empty set of dates
LatestOf(S) == CHOOSE d \in S : \A e \in S : ToOrdinal(e) <= ToOrdinal(d)

\* S is the set of the len calendar-consecutive dates that end on last
IsRunEnding(S, last, len) ==
    /\ Cardinality(S) = len
    /\ \A d \in S : /\ ToOrdinal(d) <= ToOrdinal(last)
                    /\ ToOrdinal(d) > ToOrdinal(last) - len

\* S is one run of calendar-consecutive dates
IsOneRun(S) == S # {} /\ IsRunEnding(S, LatestOf(S), Cardinality(S))

\* the k-th date of a run S
RunDate(S, k) == CHOOSE d \in S : ToOrdinal(d) = MinOf(Ordinals(S)) + k - 1

\* the length of the run of calendar-consecutive dates of S that ends on last
TrailingRun(S, last) ==
    LET O == Ordinals(S)
        top == ToOrdinal(last)
    IN  CHOOSE n \in 1..Cardinality(S) :
            /\ \A i \in 0..(n - 1) : (top - i) \in O
            /\ (top - n) \notin O

CompletedStreaks == response.body.completed_streaks

\* the completed_at of the most recent completed window
LastCompletedAt ==
    LatestOf({CompletedStreaks[i].completed_at : i \in 1..Len(CompletedStreaks)})

\* the valid entries' dates after the most recent completed window
DatesAfterReset ==
    IF CompletedStreaks = <<>> THEN ValidDates
    ELSE {d \in ValidDates : ToOrdinal(d) > ToOrdinal(LastCompletedAt)}

----------------------------------------------------------------------------
(* Properties *)

\* C1: the windows of completed_streaks are pairwise non-overlapping: no date
\* belongs to the dates of two different windows.
C1_WindowsDisjoint ==
    Answered =>
        \A i, j \in 1..Len(CompletedStreaks) :
            i < j => Range(CompletedStreaks[i].dates)
                       \cap Range(CompletedStreaks[j].dates) = {}

\* C2: when the valid entries form one run of L calendar-consecutive dates,
\* exactly L \div 7 windows are returned, the k-th covering the days
\* 7(k-1)+1 .. 7(k-1)+7 of the run.
C2_OneRunGivesFloorWindows ==
    (Answered /\ IsOneRun(ValidDates)) =>
        /\ Len(CompletedStreaks) = Cardinality(ValidDates) \div TargetDays
        /\ \A k \in 1..Len(CompletedStreaks) :
               CompletedStreaks[k].dates =
                   [i \in 1..TargetDays |->
                       RunDate(ValidDates, TargetDays * (k - 1) + i)]

\* C3: every returned window lists exactly 7 dates, each the date of a valid
\* entry of the input, each the day after the one before it, with
\* start_date the first and end_date and completed_at the seventh.
C3_WindowShape ==
    Answered =>
        \A k \in 1..Len(CompletedStreaks) :
            LET w == CompletedStreaks[k]
            IN  /\ DOMAIN w.dates = 1..7
                /\ \A i \in 1..7 : w.dates[i] \in ValidDates
                /\ \A i \in 1..6 : w.dates[i + 1] = NextDay(w.dates[i])
                /\ w.start_date = w.dates[1]
                /\ w.end_date = w.dates[7]
                /\ w.completed_at = w.dates[7]

\* C3 witness: a result with two windows, the second not the first
C3_Witness ==
    /\ Answered
    /\ Len(CompletedStreaks) >= 2
    /\ CompletedStreaks[1].dates # CompletedStreaks[2].dates

\* C4: when the user's valid entries are exactly a run of 7+k consecutive
\* dates ending today, 1 <= k <= 6, check_streak reports current_streak = k
\* (stated for the runs that lie within today's calendar year).
C4_CountRestartsAfterWindow ==
    \A k \in 1..6 :
        (/\ Answered
         /\ IsRunEnding(UserValidDates, today, 7 + k)
         /\ \A d \in UserValidDates : d[1] = today[1])
        => response.body.current_streak = k

\* C5: when the user's valid entries are exactly 7 consecutive dates and today
\* is the day after the last, check_streak reports one completed streak over
\* these dates and current_streak = 0; and whenever no valid entry is dated
\* after the completed_at of the most recent window, current_streak = 0.
C5_SevenDaysThenReset ==
    /\ (/\ Answered
        /\ UserValidDates # {}
        /\ IsRunEnding(UserValidDates, LatestOf(UserValidDates), 7)
        /\ today = NextDay(LatestOf(UserValidDates)))
       => /\ Len(CompletedStreaks) = 1
          /\ Range(CompletedStreaks[1].dates) = UserValidDates
          /\ response.body.current_streak = 0
    /\ (/\ Answered
        /\ CompletedStreaks # <<>>
        /\ \A d \in UserValidDates : ToOrdinal(d) <= ToOrdinal(LastCompletedAt))
       => response.body.current_streak = 0

\* C6: needed_for_seven = max(0, 7 - current_streak) in every result.
C6_NeededForSeven ==
    Answered =>
        response.body.needed_for_seven =
            (IF response.body.current_streak >= 7 THEN 0
             ELSE 7 - response.body.current_streak)

\* C6 witness: a result with an open streak of some days
C6_Witness ==
    /\ Answered
    /\ response.body.current_streak = 3
    /\ response.body.needed_for_seven = 4

\* C7: if the most recent valid entry dated after the last completed window is
\* more than 1 day before today, the current streak is 0, however long the
\* run that ends at this entry.
C7_StaleIsZero ==
    (/\ Answered
     /\ DatesAfterReset # {}
     /\ DaysBetween(today, LatestOf(DatesAfterReset)) > 1)
    => response.body.current_streak = 0

\* C7 witness: a run of three days that ended two days or more before today
C7_Witness ==
    /\ Answered
    /\ DatesAfterReset # {}
    /\ DaysBetween(today, LatestOf(DatesAfterReset)) > 1
    /\ TrailingRun(DatesAfterReset, LatestOf(DatesAfterReset)) >= 3
    /\ response.body.current_streak = 0

\* C8: with no completed streak and the latest valid entry dated today or
\* yesterday, the current streak is the length of the run of consecutive
\* valid dates that ends at the latest valid entry.
C8_TrailingRunCounts ==
    (/\ Answered
     /\ CompletedStreaks = <<>>
     /\ ValidDates # {}
     /\ DaysBetween(today, LatestOf(ValidDates)) \in {0, 1})
    => response.body.current_streak = TrailingRun(ValidDates, LatestOf(ValidDates))

\* C8 witness: two days counted, two earlier valid days behind a gap not counted
C8_Witness ==
    /\ Answered
    /\ CompletedStreaks = <<>>
    /\ Cardinality(ValidDates) = 4
    /\ LatestOf(ValidDates) = today
    /\ response.body.current_streak = 2

\* C9: whenever check_streak reports current_streak > 0, the most recent date
\* counted in the streak is today or yesterday.
C9_StreakEndsTodayOrYesterday ==
    (Answered /\ response.body.current_streak > 0)
    => /\ DatesAfterReset # {}
       /\ DaysBetween(today, LatestOf(DatesAfterReset)) \in {0, 1}

\* C10: entries whose actualText is missing, empty or whitespace-only are
\* invisible: the result over the fetched entries is the result over the
\* same entries with every such entry removed.
C10_BlankEntriesInvisible ==
    Answered =>
        LET NotBlank(e) == e.actualText \notin BlankTexts
            clean == StreakResponse(SelectSeq(entries, NotBlank),
                                    users[UserId], today)
        IN  /\ response.body.completed_streaks = clean.completed_streaks
            /\ response.body.current_streak = clean.current_streak
            /\ response.body.needed_for_seven = clean.needed_for_seven

\* C10 witness: a blank entry on the day between two valid days, in a result
\* with an open streak
C10_Witness ==
    /\ Answered
    /\ response.body.current_streak >= 1
    /\ \E i \in 1..Len(entries) :
          /\ entries[i].actualText = Some(<<" ">>)
          /\ NextDay(entries[i].date) \in ValidDates
          /\ \E d \in ValidDates : NextDay(d) = entries[i].date

C12_FewerThanSeven ==
    (Answered /\ Cardinality(ValidDates) < TargetDays)
    => /\ CompletedStreaks = <<>>
       /\ response.body.has_seven_day_streak = FALSE
       /\ response.body.completed_streaks_count = 0
       /\ response.body.latest_completed_streak = None

\* C12 witness: six valid entries and a blank one on seven consecutive days
C12_Witness ==
    /\ Answered
    /\ Cardinality(ValidDates) = 6
    /\ Len(entries) = 7
    /\ IsOneRun(Range(DatesOf(entries)))
    /\ response.body.has_seven_day_streak = FALSE

\* C15: completed_streaks is ordered by start_date, strictly ascending: no
\* start_date appears twice.
C15_StartDatesAscending ==
    Answered =>
        \A i, j \in 1..Len(CompletedStreaks) :
            i < j => ToOrdinal(CompletedStreaks[i].start_date)
                       < ToOrdinal(CompletedStreaks[j].start_date)

\* C15 witness: a result with three windows and three start dates
C15_Witness ==
    /\ Answered
    /\ Len(CompletedStreaks) = 3
    /\ Cardinality({CompletedStreaks[i].start_date : i \in 1..3}) = 3

\* C16: has_seven_day_streak is true exactly when completed_streaks is not
\* empty, completed_streaks_count is its length, latest_completed_streak is
\* null when it is empty and otherwise the one window with the greatest
\* completed_at, which is the window whose completed_at is the reset point of
\* current_streak.
C16_SummaryFieldsAgree ==
    Answered =>
        LET body == response.body
        IN  /\ body.has_seven_day_streak = (CompletedStreaks # <<>>)
            /\ body.completed_streaks_count = Len(CompletedStreaks)
            /\ CompletedStreaks = <<>> => body.latest_completed_streak = None
            /\ CompletedStreaks # <<>> =>
                 /\ body.latest_completed_streak # None
                 /\ LET latest == TheValue(body.latest_completed_streak)
                    IN  /\ latest.completed_at = LastCompletedAt
                        /\ \A i \in 1..Len(CompletedStreaks) :
                               CompletedStreaks[i].completed_at = LastCompletedAt
                                   => CompletedStreaks[i] = latest
                        /\ latest = MaxByCompletedAt(CompletedStreaks)
                        /\ Some(latest.completed_at)
                               = LastCompletedDate(CompletedStreaks)

\* C16 witness: two windows and an open streak counted from after the second
C16_Witness ==
    /\ Answered
    /\ Len(CompletedStreaks) = 2
    /\ response.body.latest_completed_streak = Some(CompletedStreaks[2])
    /\ response.body.current_streak = 1

\* C13: the result of the engine does not depend on the order of the list it
\* is given: completed_streaks (as a list) and current_streak are those
\* computed from the same entries listed by ascending date.
C13_OrderIndependent ==
    Answered =>
        LET Facts(body) == <<body.completed_streaks, body.current_streak>>
        IN  Facts(response.body)
              = Facts(StreakResponse(OrderedByDate(Range(entries)),
                                     users[UserId], today))

\* C13 witness: seven entries given latest first, one window found
C13_Witness ==
    /\ Answered
    /\ Len(entries) = TargetDays
    /\ \A i \in 1..(Len(entries) - 1) :
           DateStrLess(entries[i + 1].date, entries[i].date)
    /\ Len(CompletedStreaks) = 1

\* C17: a valid entry of the queried year whose date string is not a date
\* makes check_streak answer with an error and not with a streak result,
\* whatever the other entries and wherever its date string sorts among theirs.
C17_MalformedDateFails ==
    (/\ pc = "done"
     /\ \E k \in DOMAIN store :
          /\ store[k].userId = UserId
          /\ IsValidEntry(store[k])
          /\ ~ParsesAsDate(store[k].date)
          /\ ~DateStrLess(store[k].date, <<today[1], 1, 1>>)
          /\ DateStrLess(store[k].date, <<today[1] + 1, 1, 1>>))
    => response.status = 500

\* C17 witness: three entries with dates and one with "2024-11-31" between
\* them, all fetched, too few for the window search to parse any date
C17_Witness ==
    /\ pc = "done"
    /\ failing = {}
    /\ video_generations = <<>>
    /\ calls = <<>>
    /\ Len(entries) = 4
    /\ entries[2].date = <<2024, 11, 31>>
    /\ IsValidEntry(entries[2])
    /\ response.status = 500

C19_StreakStaysBanked ==
    [][(/\ response.status = 200
        /\ response.body.has_seven_day_streak
        /\ response'.status = 200)
       => response'.body.has_seven_day_streak]_vars

\* C20: when the user's valid entries are exactly 7 consecutive dates, the
\* first in one calendar year and the last in the next, none after today,
\* check_streak reports one completed streak over them; and when they are
\* exactly Dec 31 and Jan 1 and today is that Jan 1, current_streak = 2.
C20_YearBoundary ==
    /\ (/\ Answered
        /\ UserValidDates # {}
        /\ IsRunEnding(UserValidDates, LatestOf(UserValidDates), TargetDays)
        /\ \E d \in UserValidDates : d[1] # LatestOf(UserValidDates)[1]
        /\ DaysBetween(today, LatestOf(UserValidDates)) >= 0)
       => /\ Len(CompletedStreaks) = 1
          /\ Range(CompletedStreaks[1].dates) = UserValidDates
    /\ (/\ Answered
        /\ Cardinality(UserValidDates) = 2
        /\ today \in UserValidDates
        /\ today[1] # LatestOf(UserValidDates \ {today})[1]
        /\ NextDay(LatestOf(UserValidDates \ {today})) = today)
       => response.body.current_streak = 2

\* the 7 calendar-consecutive dates from d on all belong to S
StartsRun(S, d) ==
    \A i \in 0..(TargetDays - 1) : (ToOrdinal(d) + i) \in Ordinals(S)

\* the earliest date of S that starts a run of 7 and is dated after bound
\* (bound an ordinal)
EarliestRunStartAfter(S, bound) ==
    LET starts == {d \in S : StartsRun(S, d) /\ ToOrdinal(d) > bound}
    IN  IF starts = {} THEN None
        ELSE Some(CHOOSE d \in starts :
                      \A e \in starts : ToOrdinal(d) <= ToOrdinal(e))

\* C22: the window search is greedy and leftmost-first: the first window
\* starts at the earliest valid date that starts 7 consecutive valid dates,
\* and each later window at the earliest such date after the end_date of the
\* window before it.
C22_GreedyLeftmostFirst ==
    Answered =>
        \A k \in 1..Len(CompletedStreaks) :
            Some(CompletedStreaks[k].start_date) =
                EarliestRunStartAfter(ValidDates,
                    IF k = 1 THEN 0
                    ELSE ToOrdinal(CompletedStreaks[k - 1].end_date))

\* C23: in every result of check_streak 0 <= current_streak <= 6 and
\* 1 <= needed_for_seven <= 7.
C23_CurrentStreakBelowSeven ==
    Answered =>
        /\ response.body.current_streak \in 0..(TargetDays - 1)
        /\ response.body.needed_for_seven \in 1..TargetDays

\* C23 witness: an open streak of six days, one day short of a window
C23_Witness ==
    /\ Answered
    /\ response.body.current_streak = 6
    /\ response.body.needed_for_seven = 1

\* C30: with no completed streaks the two current-streak functions agree on
\* every entry list and every today:
\* _calculate_current_streak_with_resets(entries, []) =
\* _calculate_current_streak(entries), also with an entry dated after today.
C30_TwoImplementationsAgree ==
    Answered =>
        calculate_current_streak_with_resets(entries, <<>>, today)
            = calculate_current_streak(entries, today)

\* C24: check_streak answers a request without a current user id with HTTP
\* 401 and a request whose user has no user document with HTTP 404, neither
\* with HTTP 500.
C24_AuthErrorsKeepTheirStatus ==
    pc = "done" =>
        /\ current_user_id = None => response.status = 401
        /\ (current_user_id # None /\ get_user(TheValue(current_user_id)) = None)
               => response.status = 404

\* the save requests that ended with their write done on the document doc_id
CompletedSaves(doc_id) ==
    {r \in DOMAIN calls :
        /\ calls[r].pc = "done"
        /\ calls[r].status = 200
        /\ DocId(SavingUserId, TheValue(calls[r].entry).date) = doc_id}

SavedKeys == {DocId(SavingUserId, date) : date \in SaveDates}

\* C27: for one (userId, date) key the stored version is the number of
\* completed save_diary_entry calls on it, also when the saves interleave:
\* a key with no completed save has no document, and no completed save is
\* lost from the count.
C27_VersionCountsSaves ==
    \A doc_id \in SavedKeys :
        IF CompletedSaves(doc_id) = {}
        THEN doc_id \notin DOMAIN store
        ELSE /\ doc_id \in DOMAIN store
             /\ store[doc_id].version = Cardinality(CompletedSaves(doc_id))

\* C28: a write of save_diary_entry on an existing document whose request
\* does not set actualText leaves the stored actualText as it was (and one
\* that does not set planText leaves the stored planText as it was).
C28_UpdateKeepsUnsetFields ==
    [][\A r \in DOMAIN calls :
          (calls[r].pc = "write" /\ calls'[r].pc = "done" /\ calls[r].existing # None)
          => LET entry == TheValue(calls[r].entry)
                 doc_id == DocId(SavingUserId, entry.date)
             IN  /\ entry.actualText = None
                    => store'[doc_id].actualText = store[doc_id].actualText
                 /\ entry.planText = None
                    => store'[doc_id].planText = store[doc_id].planText]_vars

\* C28 witness: an update that set planText alone is done, and the document
\* has its plan and still the actualText of the first save
C28_Witness ==
    \E r \in DOMAIN calls :
        /\ calls[r].pc = "done"
        /\ calls[r].status = 200
        /\ calls[r].existing # None
        /\ TheValue(calls[r].entry).actualText = None
        /\ TheValue(calls[r].entry).planText # None
        /\ LET doc == store[DocId(SavingUserId, TheValue(calls[r].entry).date)]
           IN  /\ doc.actualText = Some(ValidText)
               /\ doc.planText = Some(<<"a">>)
               /\ doc.version = 2

CheckDone(r) == calls[r].pc = "done" /\ calls[r].response.status = 200

\* C21: check_streak mutates nothing: no step of a check_streak request
\* changes the stored entries, the user records or the video records, and
\* two check_streak requests of the same user and the same today,
\* interleaved in any way with no save in between, answer the same
\* completed_streaks and the same current_streak.
C21_CheckStreakReadsOnly ==
    [][/\ store' = store
       /\ users' = users
       /\ video_generations' = video_generations
       /\ \A r, q \in DOMAIN calls :
             (calls'[r].pc = "done" /\ calls'[q].pc = "done")
             => /\ calls'[r].response.status = 200
                /\ calls'[q].response.status = 200
                /\ calls'[r].response.body.completed_streaks
                     = calls'[q].response.body.completed_streaks
                /\ calls'[r].response.body.current_streak
                     = calls'[q].response.body.current_streak]_vars

\* C21 witness: two requests whose reads interleaved have answered, both with
\* a completed streak, the entries being the ones they started on
C21_Witness ==
    /\ \A r \in CheckIds : CheckDone(r)
    /\ \A r \in CheckIds : Len(calls[r].response.body.completed_streaks) >= 1
    /\ Cardinality(DOMAIN store) = ChecksNumDays

\* the user has 7 calendar-consecutive dates with a valid entry
HasSevenRun ==
    \E d \in UserValidDates :
        \A i \in 0..(TargetDays - 1) :
            (ToOrdinal(d) + i) \in Ordinals(UserValidDates)

\* the request r started a generation: it marked one as started or called
\* the video API
VideoStarted(r) == calls[r].pc \in {"api", "upload", "complete", "clear"}

\* the request r is a special-video request of an existing user that ended
SpecialEnded(r) ==
    /\ calls[r].kind = "special"
    /\ calls[r].pc = "done"
    /\ calls[r].status # 404

\* C25: generate_special_video answers a user with no completed 7-day streak
\* with HTTP 400; it starts no video generation and writes no
\* video_generations record for it.
C25_NoStreakAnswers400 ==
    \A r \in DOMAIN calls :
        (SpecialEnded(r) /\ ~HasSevenRun)
        => /\ calls[r].status = 400
           /\ ~calls[r].api_called
           /\ \A u \in DOMAIN video_generations :
                 video_generations[u].generation_id # r

\* the requests between the mark of their generation and their end
InProgress(kind) ==
    {r \in DOMAIN calls : calls[r].kind = kind /\ VideoStarted(r)}

\* C26: at most one intro video generation is in progress at any time, under
\* every interleaving of the requests: a generate_intro_video request that
\* arrives while another one is between its mark and its end is rejected
\* and never calls the video API.
C26_OneIntroGenerationAtATime ==
    Cardinality(InProgress("intro")) <= 1

====
